---- MODULE Spec2Model ----
(***************************************************************************)
(* A model of the Uplay runner, lutris/runners/wineuplay.py: the launcher  *)
(* lookup (get_uplay_path), the shutdown protocol (force_shutdown,         *)
(* prelaunch), the install pipeline (install) and the commands built on    *)
(* them (install_game, remove_game_data).                                  *)
(*                                                                         *)
(* A path is a sequence of its components, a registry value a sequence of  *)
(* tokens (a quote, a backslash, a path component, ...), so that splitting,*)
(* stripping, the Windows-to-unix conversion and the case correction are   *)
(* computed and not assumed.  <<>> stands for both "" and None: the code   *)
(* only ever tests such a value for truth.                                 *)
(***************************************************************************)
EXTENDS Integers, Sequences, FiniteSets, TLC

VARIABLES
    fsPaths,    \* the paths that exist on disk
    hive,       \* per prefix: the open-command value of its user.reg
    regs,       \* per prefix: the game records of its user.reg and system.reg
    running,    \* whether a Uplay.exe process exists (what is_running() saw last)
    op,         \* the method of the runner being executed ("none": no call)
    pc,         \* the position inside that method
    cfg,        \* runner_config / game_config of the runner instance
    arg,        \* the arguments of the call
    trace,      \* what the call has done so far, in order
    result,     \* how the call ended
    i,          \* has_uplay_shutdown: iterations done in the current loop
    fsOutcome,  \* how the force_shutdown of this call ended
    dx,         \* the auxiliary (DirectX) download
    up,         \* the product installer download
    prefix      \* on_uplay_downloaded: its local variable prefix

vars == <<fsPaths, hive, regs, running, op, pc, cfg, arg, trace, result, i,
          fsOutcome, dx, up, prefix>>

----------------------------------------------------------------------------
(* Program constants *)

\* has_uplay_shutdown(times=10): the polls of the graceful phase
GracefulPolls == 10
\* has_uplay_shutdown(5): the polls of the forced phase
ForcedPolls == 5

----------------------------------------------------------------------------
(* Paths, tokens and the filesystem *)

NoPath == <<>>

Q == "\""
BS == "\\"

\* runner_config defaults of default_win64_prefix / default_win32_prefix,
\* and os.path.expanduser("~/.wine")
P64 == <<"runners", "wineuplay", "prefix64">>
P32 == <<"runners", "wineuplay", "prefix">>
PW == <<"home", ".wine">>
Prefixes == {P64, P32, PW}

\* The two string literals of get_uplay_path.  The first one is written with
\* a backslash-newline inside the literal, so the indentation of the next
\* source line is part of the file name.
X86SpacedRel == <<"drive_c", "Program Files (x86)", "Ubisoft",
                  "Ubisoft Game Launcher", "                upc.exe">>
PFRel == <<"drive_c", "Program Files", "Ubisoft", "Ubisoft Game Launcher",
           "upc.exe">>
default_paths == <<X86SpacedRel, PFRel>>

\* Where the launcher really is in a 64-bit layout
X86Rel == <<"drive_c", "Program Files (x86)", "Ubisoft",
            "Ubisoft Game Launcher", "upc.exe">>

\* The custom Uplay locations a configuration may name
CustomDir == <<"opt", "uplay">>
CustomExe == CustomDir \o <<"Uplay.exe">>

Ev(e, p, a) == [ev |-> e, path |-> p, arg |-> a]

path_exists(path, fs) == path # NoPath /\ path \in fs

Lower(t) ==
    CASE t = "C:" -> "c:"
      [] t = "Program Files (x86)" -> "program files (x86)"
      [] t = "PROGRAM FILES (X86)" -> "program files (x86)"
      [] t = "Program Files" -> "program files"
      [] t = "Ubisoft" -> "ubisoft"
      [] t = "UBISOFT" -> "ubisoft"
      [] t = "Ubisoft Game Launcher" -> "ubisoft game launcher"
      [] t = "UBISOFT GAME LAUNCHER" -> "ubisoft game launcher"
      [] t = "UPC.EXE" -> "upc.exe"
      [] t = "Uplay.exe" -> "uplay.exe"
      [] OTHER -> t

LowerPath(path) == [k \in 1..Len(path) |-> Lower(path[k])]

\* system.fix_path_case: an existing path is returned as it is, a path that
\* exists under another spelling is returned in the spelling of the disk.
\* What it returns for a path that matches nothing is not fixed by the
\* specification: miss = "asis" returns the argument, miss = "none" nothing.
fix_path_case(path, fs, miss) ==
    IF path = NoPath \/ path \in fs THEN path
    ELSE LET same == {q \in fs : LowerPath(q) = LowerPath(path)}
         IN  IF same # {} THEN CHOOSE q \in same : TRUE
             ELSE IF miss = "asis" THEN path ELSE NoPath

\* str.split(sep): the pieces of s between the occurrences of sep
RECURSIVE Split(_, _)
Split(s, sep) ==
    IF \A k \in 1..Len(s) : s[k] # sep THEN <<s>>
    ELSE LET k == CHOOSE n \in 1..Len(s) :
                      s[n] = sep /\ \A m \in 1..(n - 1) : s[m] # sep
         IN  <<SubSeq(s, 1, k - 1)>> \o Split(SubSeq(s, k + 1, Len(s)), sep)

\* str.strip(ch): s without its leading and trailing ch
RECURSIVE Strip(_, _)
Strip(s, ch) ==
    IF s = <<>> THEN s
    ELSE IF Head(s) = ch THEN Strip(Tail(s), ch)
    ELSE IF s[Len(s)] = ch THEN Strip(SubSeq(s, 1, Len(s) - 1), ch)
    ELSE s

\* WineRegistry.get_unix_path: backslashes become separators and the drive
\* letter is resolved inside the prefix of the hive (dosdevices/c: is drive_c)
get_unix_path(pfx, winpath) ==
    LET pieces == Split(winpath, BS)
        comps == [k \in 1..Len(pieces) |->
                     IF pieces[k] = <<>> THEN "" ELSE pieces[k][1]]
    IN  IF winpath = <<>> THEN NoPath
        ELSE IF Lower(Head(comps)) = "c:" THEN pfx \o <<"drive_c">> \o Tail(comps)
        ELSE comps

\* get_open_command(registry): value is what registry.query returned for
\* Software/Classes/uplay/Shell/Open/Command; parts[1] of Python is parts[2]
get_open_command(value) ==
    IF value = <<>> THEN [exc |-> "", val |-> NoPath]
    ELSE LET parts == Split(value, Q)
         IN  IF Len(parts) < 2 THEN [exc |-> "IndexError", val |-> NoPath]
             ELSE [exc |-> "", val |-> Strip(parts[2], BS)]

----------------------------------------------------------------------------
(* Configuration *)

\* runner_config and game_config, with what the runner's surroundings fix
\* for a call: WINE_DEFAULT_ARCH (default_arch), what wine.is_installed()
\* answers (wine_installed) and what fix_path_case does with a path that
\* matches nothing (fix_miss); of game_config also prefix, arch and nolaunch,
\* of runner_config also args (<<>>: the option is not set)
DefaultCfg ==
    [uplay_path |-> NoPath, game_id |-> "", default_arch |-> "win64",
     wine_installed |-> TRUE, fix_miss |-> "asis",
     prefix |-> NoPath, arch |-> "", nolaunch |-> FALSE, args |-> <<>>]

Archs == {"win32", "win64"}
GameIds == {"", "42"}
CustomDirs == {NoPath, CustomDir}

\* get_default_prefix(arch): runner_config["default_%s_prefix" % arch]
\* (no other option of that name exists: NoPath stands for the KeyError)
get_default_prefix(arch) ==
    CASE arch = "win64" -> P64
      [] arch = "win32" -> P32
      [] OTHER -> NoPath

----------------------------------------------------------------------------
(* get_uplay_path *)

Found(path, probes) == [ret |-> path, exc |-> "", probes |-> probes]
Raised(e, probes) == [ret |-> NoPath, exc |-> e, probes |-> probes]

\* candidates of get_uplay_path
candidates ==
    <<get_default_prefix("win64"), get_default_prefix("win32"), PW>>

\* (a lookup that returns the hive's path as get_unix_path gives it)
try_prefix_unfixed(pfx, fs, hv, miss) ==
    LET path1 == pfx \o default_paths[1]
        path2 == pfx \o default_paths[2]
        user_reg == pfx \o <<"user.reg">>
        t3 == <<Ev("exists", path1, ""), Ev("exists", path2, ""),
                Ev("exists", user_reg, "")>>
        t4 == t3 \o <<Ev("open_hive", user_reg, ""), Ev("query", user_reg, "")>>
        from_hive(cmd, t) ==
            IF cmd.exc # "" THEN [done |-> TRUE, out |-> Raised(cmd.exc, t)]
            ELSE IF cmd.val = <<>> THEN [done |-> FALSE, out |-> Found(NoPath, t)]
            ELSE [done |-> TRUE, out |-> Found(get_unix_path(pfx, cmd.val), t)]
    IN  IF path_exists(path1, fs)
        THEN [done |-> TRUE, out |-> Found(path1, SubSeq(t3, 1, 1))]
        ELSE IF path_exists(path2, fs)
        THEN [done |-> TRUE, out |-> Found(path2, SubSeq(t3, 1, 2))]
        ELSE IF ~path_exists(user_reg, fs) THEN [done |-> FALSE, out |-> Found(NoPath, t3)]
        ELSE from_hive(get_open_command(hv[pfx]), t4)

\* (a lookup that gives up at the first prefix without a user.reg)
try_prefix_stops_without_hive(pfx, fs, hv, miss) ==
    LET path1 == pfx \o default_paths[1]
        path2 == pfx \o default_paths[2]
        user_reg == pfx \o <<"user.reg">>
        t3 == <<Ev("exists", path1, ""), Ev("exists", path2, ""),
                Ev("exists", user_reg, "")>>
        t4 == t3 \o <<Ev("open_hive", user_reg, ""), Ev("query", user_reg, "")>>
        from_hive(cmd, t) ==
            IF cmd.exc # "" THEN [done |-> TRUE, out |-> Raised(cmd.exc, t)]
            ELSE IF cmd.val = <<>> THEN [done |-> FALSE, out |-> Found(NoPath, t)]
            ELSE [done |-> TRUE,
              out |-> Found(fix_path_case(get_unix_path(pfx, cmd.val), fs, miss), t)]
    IN  IF path_exists(path1, fs)
        THEN [done |-> TRUE, out |-> Found(path1, SubSeq(t3, 1, 1))]
        ELSE IF path_exists(path2, fs)
        THEN [done |-> TRUE, out |-> Found(path2, SubSeq(t3, 1, 2))]
        ELSE IF ~path_exists(user_reg, fs) THEN [done |-> TRUE, out |-> Found(NoPath, t3)]
        ELSE from_hive(get_open_command(hv[pfx]), t4)

\* One candidate prefix of the loop of get_uplay_path: the default install
\* paths first, then the open command of the prefix's user.reg.  done tells
\* whether the function returns (or raises) here or goes on to the next
\* candidate.
try_prefix(pfx, fs, hv, miss) ==
    LET path1 == pfx \o default_paths[1]
        path2 == pfx \o default_paths[2]
        user_reg == pfx \o <<"user.reg">>
        t3 == <<Ev("exists", path1, ""), Ev("exists", path2, ""),
                Ev("exists", user_reg, "")>>
        t4 == t3 \o <<Ev("open_hive", user_reg, ""), Ev("query", user_reg, "")>>
        from_hive(cmd, t) ==
            IF cmd.exc # "" THEN [done |-> TRUE, out |-> Raised(cmd.exc, t)]
            ELSE IF cmd.val = <<>> THEN [done |-> FALSE, out |-> Found(NoPath, t)]
            ELSE [done |-> TRUE,
              out |-> Found(fix_path_case(get_unix_path(pfx, cmd.val), fs, miss), t)]
    IN  IF path_exists(path1, fs)
        THEN [done |-> TRUE, out |-> Found(path1, SubSeq(t3, 1, 1))]
        ELSE IF path_exists(path2, fs)
        THEN [done |-> TRUE, out |-> Found(path2, SubSeq(t3, 1, 2))]
        ELSE IF ~path_exists(user_reg, fs) THEN [done |-> FALSE, out |-> Found(NoPath, t3)]
        ELSE from_hive(get_open_command(hv[pfx]), t4)

\* The loop over the candidates from the k-th on; probes is what was done so far
RECURSIVE search(_, _, _, _, _, _)
search(cands, k, probes, fs, hv, miss) ==
    IF k > Len(cands) THEN Found(NoPath, probes)
    ELSE LET after(r, sofar) ==
                 IF r.done THEN [r.out EXCEPT !.probes = sofar]
                 ELSE search(cands, k + 1, sofar, fs, hv, miss)
             with(r) == after(r, probes \o r.out.probes)
         IN  with(try_prefix(cands[k], fs, hv, miss))

get_uplay_path_defaults_first(c, fs, hv, miss) ==
    LET custom_path == c.uplay_path \o <<"Uplay.exe">>
        with(r) ==
            IF r.exc = "" /\ r.ret # NoPath THEN r
            ELSE IF c.uplay_path # NoPath /\ path_exists(custom_path, fs)
            THEN Found(custom_path, r.probes \o <<Ev("exists", custom_path, "")>>)
            ELSE r
    IN  with(search(candidates, 1, <<>>, fs, hv, miss))

\* get_uplay_path(): [ret: the path returned, exc: the exception raised
\* instead, probes: the existence tests and hive accesses made, in order]
get_uplay_path(c, fs, hv, miss) ==
    LET custom_path == c.uplay_path \o <<"Uplay.exe">>
        t0 == IF c.uplay_path # NoPath
              THEN <<Ev("exists", custom_path, "")>> ELSE <<>>
    IN  IF c.uplay_path # NoPath /\ path_exists(custom_path, fs)
        THEN Found(custom_path, t0)
        ELSE search(candidates, 1, t0, fs, hv, miss)

\* is_installed(): [ret: BOOLEAN, exc, probes]
is_installed(c, fs, hv, miss) ==
    LET pfx == get_default_prefix(c.default_arch)
        t0 == <<Ev("exists", pfx, "")>>
        with(r) ==
            IF r.exc # "" THEN [ret |-> FALSE, exc |-> r.exc, probes |-> t0 \o r.probes]
            ELSE [ret |-> path_exists(r.ret, fs), exc |-> "",
                  probes |-> t0 \o r.probes \o <<Ev("exists", r.ret, "")>>]
    IN  IF ~c.wine_installed THEN [ret |-> FALSE, exc |-> "", probes |-> <<>>]
        ELSE IF ~path_exists(pfx, fs) THEN [ret |-> FALSE, exc |-> "", probes |-> t0]
        ELSE with(get_uplay_path(c, fs, hv, miss))

\* split_arguments(args): the words of a command line, as a shell splits
\* it: blanks separate words, except between quotes, and the quotes are
\* dropped.  cur is the word being read, open whether there is one, inq
\* whether a quote is open.
RECURSIVE shlex(_, _, _, _)
shlex(s, cur, open, inq) ==
    IF s = <<>> THEN (IF open THEN <<cur>> ELSE <<>>)
    ELSE IF Head(s) = Q THEN shlex(Tail(s), cur, TRUE, ~inq)
    ELSE IF Head(s) = " " /\ ~inq
    THEN (IF open THEN <<cur>> ELSE <<>>) \o shlex(Tail(s), "", FALSE, FALSE)
    ELSE shlex(Tail(s), cur \o Head(s), TRUE, inq)

\* Each word of an argv is held as a sequence, as the paths in it are
split_arguments(args) ==
    LET words == shlex(args, "", FALSE, FALSE)
    IN  [k \in 1..Len(words) |-> <<words[k]>>]

\* self.get_executable(): the wine binary
get_executable == <<"wine">>

\* (launch arguments built whether the launcher was found or not)
launch_args_unchecked(c, fs, hv, miss) ==
    LET with(r) ==
            IF r.exc # "" THEN [ret |-> <<>>, exc |-> r.exc, probes |-> r.probes]
            ELSE [ret |-> <<get_executable, r.ret>> \o split_arguments(c.args),
                  exc |-> "", probes |-> r.probes]
    IN  with(get_uplay_path(c, fs, hv, miss))

\* launch_args: [ret: the argv, exc, probes]
launch_args(c, fs, hv, miss) ==
    LET with(r) ==
            IF r.exc # "" THEN [ret |-> <<>>, exc |-> r.exc, probes |-> r.probes]
            ELSE IF r.ret = NoPath
            THEN [ret |-> <<>>, exc |-> "RuntimeError", probes |-> r.probes]
            ELSE [ret |-> <<get_executable, r.ret>> \o split_arguments(c.args),
                  exc |-> "", probes |-> r.probes]
    IN  with(get_uplay_path(c, fs, hv, miss))

----------------------------------------------------------------------------
(* The environments the runner is started in *)

\* Open-command values of a user.reg: as the Uplay installer writes it, the
\* same in capitals, with a backslash before the closing quote, and without
\* quotes; <<>> is a hive without the value.
CmdExact ==
    <<Q, "C:", BS, "Program Files (x86)", BS, "Ubisoft", BS,
      "Ubisoft Game Launcher", BS, "upc.exe", Q, " ", Q, "%1", Q>>
CmdUpper ==
    <<Q, "C:", BS, "PROGRAM FILES (X86)", BS, "UBISOFT", BS,
      "UBISOFT GAME LAUNCHER", BS, "UPC.EXE", Q, " ", Q, "%1", Q>>
CmdTrailing ==
    <<Q, "C:", BS, "Program Files (x86)", BS, "Ubisoft", BS,
      "Ubisoft Game Launcher", BS, "upc.exe", BS, Q, " ", Q, "%1", Q>>
CmdUnquoted ==
    <<"C:", BS, "Program Files (x86)", BS, "Ubisoft", BS,
      "Ubisoft Game Launcher", BS, "upc.exe">>
CmdValues == {<<>>, CmdExact, CmdUpper, CmdTrailing, CmdUnquoted}

\* What a prefix may look like: [dir: it exists, files: the launcher
\* executables in it, reg: it has a user.reg, cmd: the open command in it]
Profile(d, f, r, c) == [dir |-> d, files |-> f, reg |-> r, cmd |-> c]
Absent == Profile(FALSE, {}, FALSE, <<>>)
FullProfiles ==
    {Absent}
    \cup {Profile(TRUE, f, FALSE, <<>>) : f \in {{}, {X86Rel}, {PFRel}}}
    \cup {Profile(TRUE, f, TRUE, c) : f \in {{}, {X86Rel}}, c \in CmdValues}
    \cup {Profile(TRUE, {PFRel}, TRUE, CmdExact)}
FewProfiles ==
    {Absent, Profile(TRUE, {}, FALSE, <<>>), Profile(TRUE, {PFRel}, FALSE, <<>>),
     Profile(TRUE, {}, TRUE, CmdExact), Profile(TRUE, {X86Rel}, TRUE, CmdExact),
     Profile(TRUE, {X86Rel}, TRUE, CmdUpper)}

PathsOf(pfx, pr) ==
    (IF pr.dir THEN {pfx} ELSE {})
    \cup {pfx \o f : f \in pr.files}
    \cup (IF pr.reg THEN {pfx \o <<"user.reg">>} ELSE {})

\* The environments of the lookup's specification: every profile of the two
\* default prefixes
LocateEnvs ==
    {[p64 |-> a, p32 |-> b, pw |-> c, custom |-> x] :
        a \in FullProfiles, b \in FullProfiles, c \in FewProfiles,
        x \in BOOLEAN}

\* The environments of the full specification
SomeProfiles ==
    {Absent, Profile(TRUE, {}, FALSE, <<>>), Profile(TRUE, {PFRel}, FALSE, <<>>),
     Profile(TRUE, {X86Rel}, TRUE, CmdUpper)}
Envs ==
    {[p64 |-> a, p32 |-> b, pw |-> Absent, custom |-> x] :
        a \in SomeProfiles, b \in SomeProfiles, x \in BOOLEAN}

\* An explicit prefix a game_config may name, absolute or with the home
\* shorthand, and the prefixes whose game records are modelled
Bottle == <<"opt", "bottle">>
HomeBottle == <<"~", "bottle">>
RegPrefixes == {P64, P32, Bottle}

\* The keys this runner queries
GameStarterKey == "Software/Ubisoft/Uplay/GameStarter"
InstallsKey(id) == "Software/Ubisoft/Launcher/Installs/" \o id
Wow6432Key(id) == "Software/Wow6432/Ubisoft/Launcher/Installs/" \o id

\* The game records of a prefix: [installs: the InstallDir values of its
\* system.reg, as a set of [key, val], starter: whether its user.reg has
\* the GameStarter key, ids: the subkeys of it, in the order of the file]
Records(ins, st, ids) == [installs |-> ins, starter |-> st, ids |-> ids]
NoRecords == Records({}, FALSE, <<>>)
NoRegs == [p \in RegPrefixes |-> NoRecords]

\* InstallDir values: a directory, and a value that is there but empty
GameDir == "C:\\Games\\42"
Install(key, val) == [key |-> key, val |-> val]
InstallSets ==
    {{}, {Install(Wow6432Key("42"), GameDir)}, {Install(InstallsKey("42"), GameDir)},
     {Install(Wow6432Key("42"), GameDir), Install(InstallsKey("42"), "C:\\Games32\\42")},
     {Install(InstallsKey("42"), "")}}

\* What a prefix may look like to the game queries: [dir: it exists, user:
\* it has a user.reg, sys: it has a system.reg, rec: the records in them]
RegProfile(d, u, y, r) == [dir |-> d, user |-> u, sys |-> y, rec |-> r]
RegAbsent == RegProfile(FALSE, FALSE, FALSE, NoRecords)
RegProfiles ==
    {RegAbsent, RegProfile(TRUE, FALSE, FALSE, NoRecords)}
    \cup {RegProfile(TRUE, FALSE, TRUE, Records(ins, FALSE, <<>>)) : ins \in InstallSets}
    \cup {RegProfile(TRUE, TRUE, FALSE, Records({}, TRUE, ids)) : ids \in {<<>>, <<"42", "7">>}}
    \cup {RegProfile(TRUE, TRUE, TRUE, Records({Install(Wow6432Key("42"), GameDir)}, FALSE, <<>>))}
FewRegProfiles ==
    {RegAbsent, RegProfile(TRUE, TRUE, FALSE, Records({}, TRUE, <<"42">>)),
     RegProfile(TRUE, FALSE, TRUE, Records({Install(Wow6432Key("42"), GameDir)}, FALSE, <<>>))}

RegPathsOf(pfx, pr) ==
    (IF pr.dir THEN {pfx} ELSE {})
    \cup (IF pr.user THEN {pfx \o <<"user.reg">>} ELSE {})
    \cup (IF pr.sys THEN {pfx \o <<"system.reg">>} ELSE {})

RegistryEnvs ==
    {[p64 |-> a, p32 |-> b, bottle |-> c] :
        a \in RegProfiles, b \in RegProfiles, c \in FewRegProfiles}

TypeOK ==
    /\ fsPaths \subseteq
          {CustomExe} \cup Prefixes \cup RegPrefixes
          \cup {p \o f : p \in Prefixes \cup RegPrefixes,
                          f \in {X86Rel, PFRel, <<"user.reg">>, <<"system.reg">>}}
    /\ hive \in [Prefixes -> CmdValues]
    /\ DOMAIN regs = RegPrefixes
    /\ running \in BOOLEAN
    /\ i \in 0..GracefulPolls

Idle ==
    /\ op = "none" /\ pc = "idle" /\ cfg = DefaultCfg
    /\ arg = [game_id |-> "", callback |-> FALSE]
    /\ trace = <<>> /\ result = [kind |-> "none", val |-> "", path |-> <<>>]
    /\ i = 0 /\ fsOutcome = "" /\ dx = "none" /\ up = "none" /\ prefix = NoPath

\* The runner starts in environment e: the custom location holds a Uplay.exe
\* or not, the three prefixes are as e says
StartsIn(e) ==
    /\ fsPaths = (IF e.custom THEN {CustomExe} ELSE {}) \cup PathsOf(P64, e.p64)
                   \cup PathsOf(P32, e.p32) \cup PathsOf(PW, e.pw)
    /\ hive = [p \in Prefixes |->
                  IF p = P64 THEN e.p64.cmd
                  ELSE IF p = P32 THEN e.p32.cmd ELSE e.pw.cmd]
    /\ regs = NoRegs
    /\ running = FALSE
    /\ Idle

Init == \E e \in Envs : StartsIn(e)

InitLocate == \E e \in LocateEnvs : StartsIn(e)

\* The runner starts on a disk whose prefixes hold the game records of e
InitRegistry ==
    \E e \in RegistryEnvs :
        /\ fsPaths = RegPathsOf(P64, e.p64) \cup RegPathsOf(P32, e.p32)
                       \cup RegPathsOf(Bottle, e.bottle)
        /\ hive = [p \in Prefixes |-> <<>>]
        /\ regs = [p \in RegPrefixes |->
                      IF p = P64 THEN e.p64.rec
                      ELSE IF p = P32 THEN e.p32.rec ELSE e.bottle.rec]
        /\ running = FALSE
        /\ Idle

----------------------------------------------------------------------------
(* Calls *)

Ret(v) == [kind |-> "return", val |-> v, path |-> NoPath]
RetPath(p) == [kind |-> "return", val |-> "path", path |-> p]
Exc(e) == [kind |-> "raise", val |-> e, path |-> NoPath]
NoResult == [kind |-> "none", val |-> "", path |-> NoPath]
NoArg == [game_id |-> "", callback |-> FALSE]

Bool(b) == IF b THEN "True" ELSE "False"
Misses == {"asis", "none"}

\* A method is called on a runner built with configuration c, when no other
\* call is under way (one thread of control per runner)
Call(o, c, a) ==
    /\ pc = "idle"
    /\ op' = o /\ cfg' = c /\ arg' = a
    /\ i' = 0 /\ fsOutcome' = "" /\ prefix' = NoPath

\* A call that starts no download
NoDownloads == dx' = "none" /\ up' = "none"

\* get_uplay_path()
GetUplayPath ==
    /\ pc = "idle"
    /\ \E d \in CustomDirs, miss \in Misses :
        LET c == [DefaultCfg EXCEPT !.uplay_path = d, !.fix_miss = miss]
        IN  \E r \in {get_uplay_path(c, fsPaths, hive, miss)} :
            /\ Call("get_uplay_path", c, NoArg)
            /\ pc' = "done"
            /\ trace' = r.probes
            /\ result' = IF r.exc # "" THEN Exc(r.exc) ELSE RetPath(r.ret)
            /\ NoDownloads
            /\ UNCHANGED <<fsPaths, hive, regs, running>>

\* (an is_installed that makes the default prefix it tests)
IsInstalled_creating ==
    /\ pc = "idle"
    /\ \E d \in CustomDirs, a \in Archs, w \in BOOLEAN, miss \in Misses :
        LET c == [DefaultCfg EXCEPT !.uplay_path = d, !.default_arch = a,
                                    !.wine_installed = w, !.fix_miss = miss]
        IN  \E r \in {is_installed(c, fsPaths, hive, miss)} :
            /\ Call("is_installed", c, NoArg)
            /\ pc' = "done"
            /\ trace' = r.probes
            /\ result' = IF r.exc # "" THEN Exc(r.exc) ELSE Ret(Bool(r.ret))
            /\ NoDownloads
            /\ fsPaths' = fsPaths \cup {get_default_prefix(a)}
            /\ UNCHANGED <<hive, regs, running>>

\* is_installed()
IsInstalled ==
    /\ pc = "idle"
    /\ \E d \in CustomDirs, a \in Archs, w \in BOOLEAN, miss \in Misses :
        LET c == [DefaultCfg EXCEPT !.uplay_path = d, !.default_arch = a,
                                    !.wine_installed = w, !.fix_miss = miss]
        IN  \E r \in {is_installed(c, fsPaths, hive, miss)} :
            /\ Call("is_installed", c, NoArg)
            /\ pc' = "done"
            /\ trace' = r.probes
            /\ result' = IF r.exc # "" THEN Exc(r.exc) ELSE Ret(Bool(r.ret))
            /\ NoDownloads
            /\ UNCHANGED <<fsPaths, hive, regs, running>>

\* install_game(game_id): what it does, as [exc, trace]
install_game_unchecked(game_id, c, fs, hv, miss) ==
    LET with(la) ==
            IF la.exc # "" THEN [exc |-> la.exc, trace |-> la.probes]
            ELSE [exc |-> "",
                  trace |-> la.probes
                            \o <<Ev("execute", la.ret[2], "uplay://install/" \o game_id)>>]
    IN  with(launch_args(c, fs, hv, miss))

install_game(game_id, c, fs, hv, miss) ==
    LET with(la) ==
            IF la.exc # "" THEN [exc |-> la.exc, trace |-> la.probes]
            ELSE [exc |-> "",
                  trace |-> la.probes
                            \o <<Ev("execute", la.ret[2], "uplay://install/" \o game_id)>>]
    IN  IF game_id = "" THEN [exc |-> "ValueError", trace |-> <<>>]
        ELSE with(launch_args(c, fs, hv, miss))

InstallGame ==
    /\ pc = "idle"
    /\ \E g \in GameIds, d \in CustomDirs, miss \in Misses :
        LET c == [DefaultCfg EXCEPT !.uplay_path = d, !.fix_miss = miss]
        IN  \E r \in {install_game(g, c, fsPaths, hive, miss)} :
            /\ Call("install_game", c, [NoArg EXCEPT !.game_id = g])
            /\ pc' = "done"
            /\ trace' = r.trace
            /\ result' = IF r.exc # "" THEN Exc(r.exc) ELSE Ret("None")
            /\ NoDownloads
            /\ UNCHANGED <<fsPaths, hive, regs, running>>

----------------------------------------------------------------------------
(* force_shutdown, and its callers prelaunch and remove_game_data *)

\* What self.shutdown() (the wine runner's) may do: return, or raise
ShutdownOutcomes == {"ok", "RuntimeError", "OSError"}

\* prelaunch(): try: self.force_shutdown() / except RuntimeError: return
\* False / return True.  outcome is how force_shutdown ended.
prelaunch_catch_all(outcome) ==
    IF outcome = "returned" THEN Ret("True") ELSE Ret("False")

prelaunch_result(outcome) ==
    IF outcome = "RuntimeError" THEN Ret("False")
    ELSE IF outcome = "returned" THEN Ret("True")
    ELSE Exc(outcome)

\* (a remove_game_data that goes on after an exception of force_shutdown)
ForceShutdownEnds_caught(outcome) ==
    /\ fsOutcome' = outcome
    /\ CASE op = "force_shutdown" ->
              /\ pc' = "done"
              /\ result' = IF outcome = "returned" THEN Ret("None") ELSE Exc(outcome)
         [] op = "prelaunch" ->
              /\ pc' = "done"
              /\ result' = prelaunch_result(outcome)
         [] op = "remove_game_data" ->
              pc' = "uninstall" /\ result' = result

\* force_shutdown ends (outcome: "returned", or the exception it raises) and
\* its caller goes on
ForceShutdownEnds(outcome) ==
    /\ fsOutcome' = outcome
    /\ CASE op = "force_shutdown" ->
              /\ pc' = "done"
              /\ result' = IF outcome = "returned" THEN Ret("None") ELSE Exc(outcome)
         [] op = "prelaunch" ->
              /\ pc' = "done"
              /\ result' = prelaunch_result(outcome)
         [] op = "remove_game_data" ->
              IF outcome = "returned"
              THEN pc' = "uninstall" /\ result' = result
              ELSE pc' = "done" /\ result' = Exc(outcome)

\* force_shutdown()
ForceShutdownCall ==
    /\ Call("force_shutdown", DefaultCfg, NoArg)
    /\ pc' = "fs_entry"
    /\ trace' = <<>>
    /\ result' = NoResult
    /\ NoDownloads
    /\ UNCHANGED <<fsPaths, hive, regs, running>>

\* prelaunch(): super().prelaunch(), then force_shutdown
PrelaunchCall ==
    /\ Call("prelaunch", DefaultCfg, NoArg)
    /\ pc' = "fs_entry"
    /\ trace' = <<Ev("super_prelaunch", NoPath, "")>>
    /\ result' = NoResult
    /\ NoDownloads
    /\ UNCHANGED <<fsPaths, hive, regs, running>>

is_running_always(r) == TRUE

\* is_running(): whether pgrep finds a Uplay.exe now (r: whether there is one)
is_running(r) == r

\* force_shutdown, line 398: if is_running()
FsEntry ==
    /\ pc = "fs_entry"
    /\ \E r \in BOOLEAN :
          /\ running' = r
          /\ trace' = Append(trace, Ev("is_running", NoPath, Bool(r)))
          /\ IF is_running(r)
             THEN pc' = "fs_stop" /\ UNCHANGED <<result, fsOutcome>>
             ELSE ForceShutdownEnds("returned")
    /\ UNCHANGED <<fsPaths, hive, regs, op, cfg, arg, i, dx, up, prefix>>

\* lines 399-400: self.shutdown(), the graceful stop request
FsStop ==
    /\ pc = "fs_stop"
    /\ \E o \in ShutdownOutcomes :
          /\ trace' = Append(trace, Ev("shutdown", NoPath, o))
          /\ IF o = "ok"
             THEN pc' = "graceful_wait" /\ i' = 0 /\ UNCHANGED <<result, fsOutcome>>
             ELSE ForceShutdownEnds(o) /\ i' = i
    /\ UNCHANGED <<fsPaths, hive, regs, running, op, cfg, arg, dx, up, prefix>>

\* has_uplay_shutdown(times), one iteration of its loop: sleep a second, then
\* return True if the process is gone.  [ends: the loop is over, gone: it
\* returned True]
has_uplay_shutdown_one_more(times, n, r) ==
    [ends |-> ~is_running(r) \/ n >= times, gone |-> ~is_running(r)]

has_uplay_shutdown(times, n, r) ==
    [ends |-> ~is_running(r) \/ n + 1 >= times, gone |-> ~is_running(r)]

\* line 401 and line 404: the two polling loops
HasUplayShutdownStep ==
    /\ pc \in {"graceful_wait", "forced_wait"}
    /\ \E r \in BOOLEAN :
          LET times == IF pc = "graceful_wait" THEN GracefulPolls ELSE ForcedPolls
              h == has_uplay_shutdown(times, i, r)
          IN  /\ running' = r
              /\ trace' = trace \o <<Ev("sleep", NoPath, ""), Ev("poll", NoPath, Bool(r))>>
              /\ i' = i + 1
              /\ IF h.gone THEN ForceShutdownEnds("returned")
                 ELSE IF ~h.ends THEN UNCHANGED <<pc, result, fsOutcome>>
                 ELSE /\ pc' = IF pc = "graceful_wait" THEN "fs_kill" ELSE "fs_failed"
                      /\ UNCHANGED <<result, fsOutcome>>
    /\ UNCHANGED <<fsPaths, hive, regs, op, cfg, arg, dx, up, prefix>>

\* kill(): system.kill_pid(system.get_pid("Uplay.exe$")); it sends the
\* signal and does not raise
kill == Ev("kill", NoPath, "")

\* (a forced phase that sends the signal twice)
FsKill_twice ==
    /\ pc = "fs_kill"
    /\ trace' = trace \o <<kill, kill>>
    /\ pc' = "forced_wait"
    /\ i' = 0
    /\ UNCHANGED <<fsPaths, hive, regs, running, op, cfg, arg, result, fsOutcome, dx, up,
                   prefix>>

\* lines 402-403: kill()
FsKill ==
    /\ pc = "fs_kill"
    /\ trace' = Append(trace, kill)
    /\ pc' = "forced_wait"
    /\ i' = 0
    /\ UNCHANGED <<fsPaths, hive, regs, running, op, cfg, arg, result, fsOutcome, dx, up,
                   prefix>>

\* line 405: logger.error, and force_shutdown returns
FsFailed ==
    /\ pc = "fs_failed"
    /\ trace' = Append(trace, Ev("log_error", NoPath, ""))
    /\ ForceShutdownEnds("returned")
    /\ UNCHANGED <<fsPaths, hive, regs, running, op, cfg, arg, i, dx, up, prefix>>

\* remove_game_data(game_id): up to the call of force_shutdown
RemoveGameDataCall ==
    /\ pc = "idle"
    /\ \E g \in GameIds, cg \in GameIds, d \in CustomDirs, a \in Archs,
       w \in BOOLEAN, miss \in Misses :
        LET c == [DefaultCfg EXCEPT !.uplay_path = d, !.default_arch = a,
                                    !.wine_installed = w, !.game_id = cg,
                                    !.fix_miss = miss]
        IN  \E r \in {is_installed(c, fsPaths, hive, miss)} :
            /\ Call("remove_game_data", c, [NoArg EXCEPT !.game_id = g])
            /\ trace' = r.probes
            /\ IF r.exc # "" THEN pc' = "done" /\ result' = Exc(r.exc)
               ELSE IF ~r.ret THEN pc' = "done" /\ result' = Ret("False")
               ELSE pc' = "fs_entry" /\ result' = NoResult
            /\ NoDownloads
            /\ UNCHANGED <<fsPaths, hive, regs, running>>

\* self.game_id
game_id(c) == c.game_id

\* remove_game_data, lines 443-449: the uninstall command is built and started
RemoveGameDataUninstall ==
    /\ pc = "uninstall" /\ op = "remove_game_data"
    /\ \E la \in {launch_args(cfg, fsPaths, hive, cfg.fix_miss)} :
          LET id == IF arg.game_id # "" THEN arg.game_id ELSE game_id(cfg)
          IN
          IF la.exc # ""
          THEN trace' = trace \o la.probes /\ result' = Exc(la.exc)
          ELSE /\ trace' = trace \o la.probes
                             \o <<Ev("start", la.ret[2], "uplay://uninstall/" \o id)>>
               /\ result' = Ret("None")
    /\ pc' = "done"
    /\ UNCHANGED <<fsPaths, hive, regs, running, op, cfg, arg, i, fsOutcome, dx, up, prefix>>

----------------------------------------------------------------------------
(* install *)

\* (a resolution that takes the architecture as it is configured)
get_or_create_default_prefix_as_configured(arch, c, fs, created) ==
    LET a == arch
        pfx == get_default_prefix(a)
        looked == <<Ev("get_default_prefix", pfx, a), Ev("exists", pfx, "")>>
    IN  IF pfx = NoPath
        THEN [ret |-> NoPath, exc |-> "KeyError", fs |-> fs,
              trace |-> <<Ev("get_default_prefix", pfx, a)>>]
        ELSE IF path_exists(pfx, fs)
        THEN [ret |-> pfx, exc |-> "", fs |-> fs, trace |-> looked]
        ELSE IF created
        THEN [ret |-> pfx, exc |-> "",
              fs |-> fs \cup {pfx, pfx \o <<"user.reg">>, pfx \o <<"system.reg">>},
              trace |-> Append(looked, Ev("create_prefix", pfx, a))]
        ELSE [ret |-> NoPath, exc |-> "PrefixCreationError", fs |-> fs,
              trace |-> Append(looked, Ev("create_prefix", pfx, a))]

\* (a resolution that creates the prefix whether it exists or not)
get_or_create_default_prefix_recreating(arch, c, fs, created) ==
    LET a == IF arch = "" \/ arch = "auto" THEN c.default_arch ELSE arch
        pfx == get_default_prefix(a)
        looked == <<Ev("get_default_prefix", pfx, a), Ev("exists", pfx, "")>>
    IN  IF created
        THEN [ret |-> pfx, exc |-> "",
              fs |-> fs \cup {pfx, pfx \o <<"user.reg">>, pfx \o <<"system.reg">>},
              trace |-> Append(looked, Ev("create_prefix", pfx, a))]
        ELSE [ret |-> NoPath, exc |-> "PrefixCreationError", fs |-> fs,
              trace |-> Append(looked, Ev("create_prefix", pfx, a))]

\* get_or_create_default_prefix(arch): with created telling whether
\* create_prefix succeeds, [ret: the prefix, exc, fs: the disk afterwards,
\* trace]
get_or_create_default_prefix(arch, c, fs, created) ==
    LET a == IF arch = "" \/ arch = "auto" THEN c.default_arch ELSE arch
        pfx == get_default_prefix(a)
        looked == <<Ev("get_default_prefix", pfx, a), Ev("exists", pfx, "")>>
    IN  IF pfx = NoPath
        THEN [ret |-> NoPath, exc |-> "KeyError", fs |-> fs,
              trace |-> <<Ev("get_default_prefix", pfx, a)>>]
        ELSE IF path_exists(pfx, fs)
        THEN [ret |-> pfx, exc |-> "", fs |-> fs, trace |-> looked]
        ELSE IF created
        THEN [ret |-> pfx, exc |-> "",
              fs |-> fs \cup {pfx, pfx \o <<"user.reg">>, pfx \o <<"system.reg">>},
              trace |-> Append(looked, Ev("create_prefix", pfx, a))]
        ELSE [ret |-> NoPath, exc |-> "PrefixCreationError", fs |-> fs,
              trace |-> Append(looked, Ev("create_prefix", pfx, a))]

\* install(version, downloader, callback), lines 285-286: the auxiliary
\* download is handed to download_and_extract, which may raise, and the
\* product download to the downloader, with on_uplay_downloaded to call
InstallCall ==
    \E cb \in BOOLEAN, a \in Archs, started \in BOOLEAN :
        /\ Call("install", [DefaultCfg EXCEPT !.default_arch = a],
                [NoArg EXCEPT !.callback = cb])
        /\ IF started
           THEN /\ dx' = "pending" /\ up' = "pending" /\ pc' = "downloading"
                /\ trace' = <<Ev("download_and_extract", NoPath, "dxsetup.zip"),
                              Ev("downloader", NoPath, "UplayInstaller.exe")>>
                /\ result' = NoResult
           ELSE /\ dx' = "failed" /\ up' = "none" /\ pc' = "done"
                /\ trace' = <<Ev("download_and_extract", NoPath, "dxsetup.zip")>>
                /\ result' = Exc("DownloadError")
        /\ UNCHANGED <<fsPaths, hive, regs, running>>

\* The auxiliary download ends, whenever it does
AuxDownloadEnds ==
    /\ op = "install" /\ dx = "pending"
    /\ \E ok \in BOOLEAN : dx' = IF ok THEN "ok" ELSE "failed"
    /\ UNCHANGED <<fsPaths, hive, regs, running, op, pc, cfg, arg, trace, result, i,
                   fsOutcome, up, prefix>>

\* The product download ends: the downloader calls on_uplay_downloaded when
\* the file is there
ProductDownloadEnds ==
    /\ op = "install" /\ pc = "downloading" /\ up = "pending"
    /\ \E ok \in BOOLEAN :
          IF ok THEN up' = "ok" /\ pc' = "on_uplay_downloaded" /\ result' = result
          ELSE up' = "failed" /\ pc' = "done" /\ result' = Exc("DownloadError")
    /\ UNCHANGED <<fsPaths, hive, regs, running, op, cfg, arg, trace, i, fsOutcome, dx,
                   prefix>>

\* The install steps of on_uplay_downloaded after line 264, in the order of
\* the source: wineexec(dx2010_path), winetricks(...), wineexec(installer_path)
steps_product_first == <<"product_install", "aux_install", "winetricks", "callback">>

steps == <<"aux_install", "winetricks", "product_install", "callback">>

StepAfter(st) ==
    LET k == CHOOSE n \in 1..Len(steps) : steps[n] = st
    IN  IF k = Len(steps) THEN "done" ELSE steps[k + 1]

\* on_uplay_downloaded, line 264: prefix = self.get_or_create_default_prefix()
ContPrefix ==
    /\ op = "install" /\ pc = "on_uplay_downloaded"
    /\ \E created \in BOOLEAN :
          LET r == get_or_create_default_prefix("", cfg, fsPaths, created)
          IN  /\ trace' = trace \o r.trace
              /\ fsPaths' = r.fs
              /\ IF r.exc # ""
                 THEN pc' = "done" /\ result' = Exc(r.exc) /\ prefix' = prefix
                 ELSE pc' = steps[1] /\ result' = result /\ prefix' = r.ret
    /\ UNCHANGED <<hive, regs, running, op, cfg, arg, i, fsOutcome, dx, up>>

\* wineexec and winetricks: the call returns when the process it ran has
\* ended, or raises when the step failed
StepOutcomes == {"ok", "failed"}

\* One wineexec or winetricks call of on_uplay_downloaded: its value is not
\* used, an exception it raises ends the continuation
ContStep ==
    /\ op = "install" /\ pc \in {"aux_install", "winetricks", "product_install"}
    /\ \E o \in StepOutcomes :
          /\ trace' = Append(trace, Ev(pc, prefix, o))
          /\ IF o = "ok" THEN pc' = StepAfter(pc) /\ result' = result
             ELSE pc' = "done" /\ result' = Exc("InstallError")
    /\ UNCHANGED <<fsPaths, hive, regs, running, op, cfg, arg, i, fsOutcome, dx, up, prefix>>

\* lines 282-283: if callback: callback()
ContCallback ==
    /\ op = "install" /\ pc = "callback"
    /\ trace' = IF arg.callback THEN Append(trace, Ev("callback", NoPath, ""))
                ELSE trace
    /\ pc' = "done"
    /\ result' = Ret("None")
    /\ UNCHANGED <<fsPaths, hive, regs, running, op, cfg, arg, i, fsOutcome, dx, up, prefix>>

----------------------------------------------------------------------------
(* get_command *)

\* runner_config args: none, one word, and two words of which one is quoted
ArgsValues == {<<>>, <<"-silent">>, <<"-a", " ", Q, "b", " ", "c", Q>>}

\* get_command(): [ret: the argv, exc, probes]
get_command(c, fs, hv, miss) ==
    LET with(command) ==
            IF command.exc # "" \/ c.nolaunch THEN command
            ELSE [command EXCEPT
                    !.ret = Append(command.ret, <<"uplay://launch/" \o game_id(c)>>)]
    IN  with(launch_args(c, fs, hv, miss))

\* A returned argv
RetArgv(argv) == [kind |-> "return", val |-> "argv", path |-> argv]

\* get_command()
GetCommand ==
    /\ pc = "idle"
    /\ \E d \in CustomDirs, miss \in Misses, g \in GameIds, n \in BOOLEAN,
          x \in ArgsValues :
          LET c == [DefaultCfg EXCEPT !.uplay_path = d, !.fix_miss = miss,
                                      !.game_id = g, !.nolaunch = n, !.args = x]
          IN  \E r \in {get_command(c, fsPaths, hive, miss)} :
              /\ Call("get_command", c, NoArg)
              /\ pc' = "done"
              /\ trace' = r.probes
              /\ result' = IF r.exc # "" THEN Exc(r.exc) ELSE RetArgv(r.ret)
              /\ NoDownloads
              /\ UNCHANGED <<fsPaths, hive, regs, running>>

----------------------------------------------------------------------------
(* The prefix of a game, and the game records in its registry *)

ConfigPrefixes == {NoPath, Bottle, HomeBottle}
ConfigArchs == {"", "auto", "win32", "win64"}

\* self.game_config.get("prefix") or
\* self.get_or_create_default_prefix(arch=self.game_config.get("arch"))
config_prefix(c, fs, created) ==
    IF c.prefix # NoPath
    THEN [ret |-> c.prefix, exc |-> "", fs |-> fs, trace |-> <<>>]
    ELSE get_or_create_default_prefix(c.arch, c, fs, created)

\* self.wine_arch() of the wine runner: the architecture of the game's
\* configuration, or the one detected in the prefix
wine_arch(c, detected) == IF c.arch \in Archs THEN c.arch ELSE detected

\* WineRegistry(system_reg).query(key, "InstallDir"): "" stands for no
\* value, which is what a hive file that is not there gives for every key
query(pfx, fs, rg, key) ==
    LET hits == IF pfx \o <<"system.reg">> \in fs /\ pfx \in DOMAIN rg
                THEN {e \in rg[pfx].installs : e.key = key} ELSE {}
    IN  IF hits = {} THEN "" ELSE (CHOOSE e \in hits : TRUE).val

get_game_path_from_game_id_wow_only(id, c, fs, rg, created, arch) ==
    LET with(p) ==
            IF p.exc # "" THEN [ret |-> "", exc |-> p.exc, fs |-> p.fs, trace |-> p.trace]
            ELSE LET system_reg == p.ret \o <<"system.reg">>
                     key == Wow6432Key(id)
                     asked == p.trace \o <<Ev("open_hive", system_reg, ""),
                                           Ev("wine_arch", NoPath, arch),
                                           Ev("query", system_reg, key)>>
                     found(game_path) ==
                         [ret |-> game_path, exc |-> "", fs |-> p.fs,
                          trace |-> IF game_path # "" THEN asked
                                    ELSE Append(asked, Ev("log_warning", NoPath, id))]
                 IN  found(query(p.ret, p.fs, rg, key))
    IN  with(config_prefix(c, fs, created))

\* get_game_path_from_game_id(game_id), arch being what self.wine_arch()
\* returns: [ret: the InstallDir ("": None), exc, fs: the disk afterwards,
\* trace]
get_game_path_from_game_id(id, c, fs, rg, created, arch) ==
    LET with(p) ==
            IF p.exc # "" THEN [ret |-> "", exc |-> p.exc, fs |-> p.fs, trace |-> p.trace]
            ELSE LET system_reg == p.ret \o <<"system.reg">>
                     key == IF arch = "win64" THEN Wow6432Key(id) ELSE InstallsKey(id)
                     asked == p.trace \o <<Ev("open_hive", system_reg, ""),
                                           Ev("wine_arch", NoPath, arch),
                                           Ev("query", system_reg, key)>>
                     found(game_path) ==
                         [ret |-> game_path, exc |-> "", fs |-> p.fs,
                          trace |-> IF game_path # "" THEN asked
                                    ELSE Append(asked, Ev("log_warning", NoPath, id))]
                 IN  found(query(p.ret, p.fs, rg, key))
    IN  with(config_prefix(c, fs, created))

\* get_game_path_from_game_id(game_id)
GetGamePathFromGameId ==
    /\ pc = "idle"
    /\ \E g \in GameIds, pf \in ConfigPrefixes, a \in ConfigArchs, da \in Archs,
          created \in BOOLEAN, detected \in Archs :
          LET c == [DefaultCfg EXCEPT !.prefix = pf, !.arch = a, !.default_arch = da]
          IN  \E r \in {get_game_path_from_game_id(g, c, fsPaths, regs, created,
                                                   wine_arch(c, detected))} :
              /\ Call("get_game_path_from_game_id", c, [NoArg EXCEPT !.game_id = g])
              /\ pc' = "done"
              /\ trace' = r.trace
              /\ fsPaths' = r.fs
              /\ result' = IF r.exc # "" THEN Exc(r.exc)
                           ELSE IF r.ret # "" THEN Ret(r.ret) ELSE Ret("None")
              /\ NoDownloads
              /\ UNCHANGED <<hive, regs, running>>

\* WineRegistry(user_reg).query(key): the mapping of the subkeys of key, as
\* [present, ids]; a key that is not there gives no mapping
query_subkeys(pfx, rg, key) ==
    IF pfx \in DOMAIN rg /\ key = GameStarterKey /\ rg[pfx].starter
    THEN [present |-> TRUE, ids |-> rg[pfx].ids]
    ELSE [present |-> FALSE, ids |-> <<>>]

\* get_game_id_list(): [kind: "keys" (ids returned), "None" (the function
\* ends without a return statement) or "raise", ids, exc, fs, trace]
get_game_id_list(c, fs, rg, created) ==
    LET with(p) ==
            LET user_reg == p.ret \o <<"user.reg">>
                tested == Append(p.trace, Ev("exists", user_reg, ""))
                asked == tested \o <<Ev("open_hive", user_reg, ""),
                                     Ev("query", user_reg, GameStarterKey)>>
                keys(apps) ==
                    IF apps.present
                    THEN [kind |-> "keys", ids |-> apps.ids, exc |-> "", fs |-> p.fs,
                          trace |-> asked]
                    ELSE [kind |-> "raise", ids |-> <<>>, exc |-> "AttributeError",
                          fs |-> p.fs, trace |-> asked]
            IN  IF p.exc # ""
                THEN [kind |-> "raise", ids |-> <<>>, exc |-> p.exc, fs |-> p.fs,
                      trace |-> p.trace]
                ELSE IF ~path_exists(user_reg, p.fs)
                THEN [kind |-> "None", ids |-> <<>>, exc |-> "", fs |-> p.fs,
                      trace |-> tested]
                ELSE keys(query_subkeys(p.ret, rg, GameStarterKey))
    IN  with(config_prefix(c, fs, created))

\* A returned collection of ids
RetKeys(ids) == [kind |-> "return", val |-> "keys", path |-> ids]

\* get_game_id_list()
GetGameIdList ==
    /\ pc = "idle"
    /\ \E pf \in ConfigPrefixes, a \in ConfigArchs, da \in Archs, created \in BOOLEAN :
          LET c == [DefaultCfg EXCEPT !.prefix = pf, !.arch = a, !.default_arch = da]
          IN  \E r \in {get_game_id_list(c, fsPaths, regs, created)} :
              /\ Call("get_game_id_list", c, NoArg)
              /\ pc' = "done"
              /\ trace' = r.trace
              /\ fsPaths' = r.fs
              /\ result' = CASE r.kind = "raise" -> Exc(r.exc)
                             [] r.kind = "keys" -> RetKeys(r.ids)
                             [] r.kind = "None" -> Ret("None")
              /\ NoDownloads
              /\ UNCHANGED <<hive, regs, running>>

\* os.path.expanduser: a leading ~ is the home directory
expanduser(path) ==
    IF path # <<>> /\ Head(path) = "~" THEN <<"home">> \o Tail(path) ELSE path

\* prefix_path: [ret, exc, fs, trace]
prefix_path(c, fs, created) ==
    LET with(p) ==
            IF p.exc # "" THEN p
            ELSE [ret |-> expanduser(p.ret), exc |-> "", fs |-> p.fs, trace |-> p.trace]
    IN  with(config_prefix(c, fs, created))

\* prefix_path
PrefixPath ==
    /\ pc = "idle"
    /\ \E pf \in ConfigPrefixes, a \in ConfigArchs, da \in Archs, created \in BOOLEAN :
          LET c == [DefaultCfg EXCEPT !.prefix = pf, !.arch = a, !.default_arch = da]
          IN  \E r \in {prefix_path(c, fsPaths, created)} :
              /\ Call("prefix_path", c, NoArg)
              /\ pc' = "done"
              /\ trace' = r.trace
              /\ fsPaths' = r.fs
              /\ result' = IF r.exc # "" THEN Exc(r.exc) ELSE RetPath(r.ret)
              /\ NoDownloads
              /\ UNCHANGED <<hive, regs, running>>

----------------------------------------------------------------------------

\* The call is over and the runner is dropped; the disk stays as it is
Return ==
    /\ pc = "done"
    /\ op' = "none" /\ pc' = "idle" /\ cfg' = DefaultCfg /\ arg' = NoArg
    /\ trace' = <<>> /\ result' = NoResult
    /\ i' = 0 /\ fsOutcome' = "" /\ dx' = "none" /\ up' = "none" /\ prefix' = NoPath
    /\ UNCHANGED <<fsPaths, hive, regs, running>>

Next ==
    \/ GetUplayPath
    \/ IsInstalled
    \/ InstallGame
    \/ ForceShutdownCall
    \/ PrelaunchCall
    \/ FsEntry
    \/ FsStop
    \/ HasUplayShutdownStep
    \/ FsKill
    \/ FsFailed
    \/ RemoveGameDataCall
    \/ RemoveGameDataUninstall
    \/ InstallCall
    \/ AuxDownloadEnds
    \/ ProductDownloadEnds
    \/ ContPrefix
    \/ ContStep
    \/ ContCallback
    \/ GetGamePathFromGameId
    \/ GetGameIdList
    \/ PrefixPath
    \/ GetCommand
    \/ Return

Spec == Init /\ [][Next]_vars

\* The lookup alone, over every environment
NextLocate ==
    \/ GetUplayPath
    \/ IsInstalled
    \/ InstallGame
    \/ GetGamePathFromGameId
    \/ Return

SpecLocate == InitLocate /\ [][NextLocate]_vars

\* The shutdown protocol alone, with its callers.  The calling thread runs
\* on: a step of force_shutdown that can be taken is taken (time.sleep(1)
\* and the stop request return).
ShutdownStep ==
    \/ FsEntry
    \/ FsStop
    \/ HasUplayShutdownStep
    \/ FsKill
    \/ FsFailed

NextShutdown ==
    \/ ForceShutdownCall
    \/ PrelaunchCall
    \/ RemoveGameDataCall
    \/ ShutdownStep
    \/ RemoveGameDataUninstall
    \/ Return

SpecShutdown == Init /\ [][NextShutdown]_vars /\ WF_vars(ShutdownStep)

\* The game queries and the prefix resolution alone, over every registry
NextRegistry ==
    \/ GetGamePathFromGameId
    \/ GetGameIdList
    \/ PrefixPath
    \/ Return

SpecRegistry == InitRegistry /\ [][NextRegistry]_vars

----------------------------------------------------------------------------
(* What a call has done, read from its trace *)

At(e) == {k \in 1..Len(trace) : trace[k].ev = e}
Has(e) == At(e) # {}
Polls == At("poll")
\* The polls made before any kill, and those made after one
GracefulPhase == {k \in Polls : \A j \in At("kill") : k < j}
ForcedPhase == {k \in Polls : \E j \in At("kill") : j < k}
SawGone(k) == trace[k].arg = "False"
ShutdownEvents == {"is_running", "shutdown", "sleep", "poll", "kill", "log_error"}

----------------------------------------------------------------------------
(* C1 *)

\* C1: in every call, force_shutdown polls at most 10 times after the stop
\* request and before kill(), and at most 5 times after kill(); every poll
\* follows a one-second sleep of its own; a poll that sees the process gone
\* is the last thing force_shutdown does (no further sleep, poll, kill or
\* error log), so kill() is reached only after 10 polls that all saw the
\* process running, and never once a graceful poll saw it gone.
C1_PollBounds ==
    /\ Cardinality(GracefulPhase) <= 10
    /\ Cardinality(ForcedPhase) <= 5
    /\ \A k \in Polls :
          /\ k > 1 /\ trace[k - 1].ev = "sleep"
          /\ \E j \in At("shutdown") : j < k /\ trace[j].arg = "ok"
    /\ Cardinality(At("sleep")) = Cardinality(Polls)
    /\ \A k \in Polls :
          SawGone(k) =>
             \A j \in (k + 1)..Len(trace) : trace[j].ev \notin ShutdownEvents
    /\ Has("kill") =>
          /\ Cardinality(GracefulPhase) = 10
          /\ \A k \in GracefulPhase : ~SawGone(k)
    /\ (\E k \in GracefulPhase : SawGone(k)) => ~Has("kill")

\* A force_shutdown whose third poll saw the process gone has returned,
\* after three polls and without a kill
C1_Witness ==
    /\ op = "force_shutdown" /\ pc = "done"
    /\ Cardinality(Polls) = 3
    /\ \E k \in Polls : SawGone(k)
    /\ ~Has("kill")
    /\ result = Ret("None")

----------------------------------------------------------------------------
(* C2, C3 *)

InstallSteps == {"aux_install", "winetricks", "product_install", "callback"}
\* The install steps the call has made, in order
StepsDone == SelectSeq(trace, LAMBDA e : e.ev \in InstallSteps)
IsPrefixOf(a, b) == Len(a) <= Len(b) /\ \A k \in 1..Len(a) : a[k] = b[k]

\* C2: the install steps a call of install() has made are, in this order, the
\* DirectX install, the winetricks install, the Uplay install and the
\* callback, each made only after the one before it returned without
\* failing: a failed winetricks step is followed by no product install and
\* no callback, the callback comes at most once and after the product
\* install, and a continuation that ends normally with a callback to call
\* has made all four.
C2_InstallOrder ==
    op = "install" =>
       LET done == StepsDone
       IN  /\ IsPrefixOf([k \in 1..Len(done) |-> done[k].ev],
                         <<"aux_install", "winetricks", "product_install", "callback">>)
           /\ \A k \in 1..(Len(done) - 1) : done[k].arg = "ok"
           /\ (pc = "done" /\ result = Ret("None")) =>
                 Len(done) = IF arg.callback THEN 4 ELSE 3

\* An install whose four steps were made, the callback last
C2_Witness ==
    /\ op = "install" /\ pc = "done" /\ result = Ret("None")
    /\ Len(StepsDone) = 4
    /\ StepsDone[4].ev = "callback"
    /\ StepsDone[3] = Ev("product_install", prefix, "ok")

\* C3: no install step (DirectX install, winetricks, Uplay install, callback)
\* is made unless both downloads have succeeded, whatever the order and the
\* outcome of the downloads; and when an install step fails the failure
\* leaves the continuation and the callback is not called.
C3_StepsOnlyAfterBothDownloads ==
    op = "install" =>
       /\ StepsDone # <<>> => (dx = "ok" /\ up = "ok")
       /\ (\E k \in 1..Len(StepsDone) : StepsDone[k].arg = "failed") =>
             (~Has("callback") /\ pc = "done" /\ result.kind = "raise")

----------------------------------------------------------------------------
(* C4, C5, C6 *)

Under(pfx, path) == Len(path) > Len(pfx) /\ SubSeq(path, 1, Len(pfx)) = pfx
LauncherFiles == {X86Rel, PFRel}
HasLauncher(pfx) == \E f \in LauncherFiles : pfx \o f \in fsPaths
\* The candidate prefix an event of the lookup is about (0: none of them)
PrefixNo(e) ==
    IF Under(P64, e.path) THEN 1
    ELSE IF Under(P32, e.path) THEN 2
    ELSE IF Under(PW, e.path) THEN 3 ELSE 0
GetUplayPathDone == op = "get_uplay_path" /\ pc = "done"

\* C4: get_uplay_path looks into the candidate prefixes in the order win64
\* default, win32 default, ~/.wine, and whenever a launcher executable is on
\* disk under the win32 default prefix and nowhere else (the win64 default
\* prefix exists and has none), it returns a path under the win32 default
\* prefix.
C4_Win32PrefixSelected ==
    GetUplayPathDone =>
       /\ \A j, k \in 1..Len(trace) :
             (j < k /\ PrefixNo(trace[j]) > 0 /\ PrefixNo(trace[k]) > 0)
                => PrefixNo(trace[j]) <= PrefixNo(trace[k])
       /\ (/\ HasLauncher(P32) /\ ~HasLauncher(P64) /\ ~HasLauncher(PW)
           /\ CustomExe \notin fsPaths /\ P64 \in fsPaths)
             => (result.kind = "return" /\ Under(P32, result.path))

\* C5: when a custom Uplay location is configured and its Uplay.exe exists,
\* get_uplay_path returns that file, and the only thing the call does is
\* the existence test of that file: no test under a default or fallback
\* prefix, no hive opened or queried.
C5_CustomLocationOnly ==
    (GetUplayPathDone /\ cfg.uplay_path # NoPath
        /\ cfg.uplay_path \o <<"Uplay.exe">> \in fsPaths)
       => /\ result = RetPath(cfg.uplay_path \o <<"Uplay.exe">>)
          /\ \A k \in 1..Len(trace) :
                trace[k] = Ev("exists", cfg.uplay_path \o <<"Uplay.exe">>, "")

\* The custom location was returned although a default prefix holds a
\* launcher and a hive with an open command
C5_Witness ==
    /\ GetUplayPathDone /\ cfg.uplay_path = CustomDir
    /\ result = RetPath(CustomExe)
    /\ P64 \o PFRel \in fsPaths
    /\ P32 \o <<"user.reg">> \in fsPaths /\ hive[P32] = CmdExact

CaseMatches(path) == {q \in fsPaths : LowerPath(q) = LowerPath(path)}
FromHive == trace # <<>> /\ trace[Len(trace)].ev = "query"

----------------------------------------------------------------------------
(* C7, C8 *)

C8_NotRunningIsNoOp ==
    (op = "force_shutdown" /\ trace # <<>>
        /\ trace[1] = Ev("is_running", NoPath, "False"))
       => /\ pc = "done"
          /\ result = Ret("None")
          /\ fsOutcome = "returned"
          /\ Len(trace) = 1

C8_Witness ==
    /\ op = "force_shutdown" /\ pc = "done"
    /\ trace = <<Ev("is_running", NoPath, "False")>>
    /\ ~running
    /\ result = Ret("None")

----------------------------------------------------------------------------
(* C9, C10 *)

\* C9: install_game with an empty game id raises the missing-id error
\* (ValueError) and has done nothing: the launcher was not looked up (no
\* existence test, no hive opened), no prefix was created, nothing was
\* executed.
C9_EmptyIdFailsFirst ==
    (op = "install_game" /\ pc = "done" /\ arg.game_id = "")
       => /\ result = Exc("ValueError")
          /\ trace = <<>>

\* install_game("") raised although a launcher is installed and would have
\* been found
C9_Witness ==
    /\ op = "install_game" /\ pc = "done" /\ arg.game_id = ""
    /\ result = Exc("ValueError")
    /\ P64 \o PFRel \in fsPaths

\* C10: remove_game_data without a game id, neither as argument nor in the
\* configuration, shuts nothing down and builds and starts no uninstall
\* command, and ends with the missing-id error (or, the runner not being
\* installed, with False).
C10_UninstallNeedsId ==
    (op = "remove_game_data" /\ arg.game_id = "" /\ cfg.game_id = "")
       => /\ \A k \in 1..Len(trace) :
                trace[k].ev \notin {"shutdown", "kill", "start"}
          /\ pc = "done" => result \in {Exc("ValueError"), Ret("False")}

----------------------------------------------------------------------------
(* C11 *)

GetGamePathDone == op = "get_game_path_from_game_id" /\ pc = "done"
\* Of a call that came to its query: the architecture wine_arch() gave, the
\* key asked for and the prefix whose system.reg was asked
ArchAsked == trace[CHOOSE k \in At("wine_arch") : TRUE].arg
KeyAsked == trace[CHOOSE k \in At("query") : TRUE].arg
PrefixAsked ==
    LET file == trace[CHOOSE k \in At("query") : TRUE].path
    IN  SubSeq(file, 1, Len(file) - 1)
KeysIn(pfx) ==
    IF pfx \in RegPrefixes /\ pfx \o <<"system.reg">> \in fsPaths
    THEN {e.key : e \in regs[pfx].installs} ELSE {}

\* C11: get_game_path_from_game_id makes one query, of the Wow6432 key of the
\* game id when the architecture is win64 and of the direct Installs key
\* otherwise, and a 32-bit resolution in a system.reg that has only the
\* Wow6432 key of the game id returns no path.
C11_KeyByArchitecture ==
    (GetGamePathDone /\ result.kind = "return") =>
       /\ Cardinality(At("query")) = 1
       /\ KeyAsked = IF ArchAsked = "win64" THEN Wow6432Key(arg.game_id)
                     ELSE InstallsKey(arg.game_id)
       /\ (ArchAsked = "win32" /\ InstallsKey(arg.game_id) \notin KeysIn(PrefixAsked))
             => result = Ret("None")

\* A 32-bit resolution of game 42 in a prefix whose system.reg has only the
\* Wow6432 key of it came back without a path
C11_Witness ==
    /\ GetGamePathDone /\ arg.game_id = "42" /\ result = Ret("None")
    /\ ArchAsked = "win32"
    /\ KeysIn(PrefixAsked) = {Wow6432Key("42")}

----------------------------------------------------------------------------
(* C12 *)

GetGameIdListDone == op = "get_game_id_list" /\ pc = "done"
\* The user.reg the call tested, and the prefix it is in
UserRegTested == trace[CHOOSE k \in At("exists") : trace[k].path[Len(trace[k].path)] = "user.reg"].path
StarterIds(pfx) ==
    IF pfx \in RegPrefixes /\ pfx \o <<"user.reg">> \in fsPaths /\ regs[pfx].starter
    THEN {regs[pfx].ids[k] : k \in 1..Len(regs[pfx].ids)} ELSE {}

\* C12: get_game_id_list, once its prefix is resolved, returns a collection:
\* the subkey names under the GameStarter key of the prefix's user.reg, and
\* an empty collection, without raising, when that user.reg does not exist
\* or has no such key.
C12_IdsOrEmpty ==
    (GetGameIdListDone /\ result # Exc("PrefixCreationError")) =>
       /\ result.kind = "return" /\ result.val = "keys"
       /\ {result.path[k] : k \in 1..Len(result.path)}
             = StarterIds(SubSeq(UserRegTested, 1, Len(UserRegTested) - 1))

----------------------------------------------------------------------------
(* C13 *)

CandidateNo(pfx) == IF pfx = P64 THEN 1 ELSE IF pfx = P32 THEN 2 ELSE 3
\* The candidate prefixes whose user.reg the lookup tested and found missing
\* or without the open command
SkippedPrefixes ==
    {pfx \in Prefixes :
        /\ Ev("exists", pfx \o <<"user.reg">>, "") \in {trace[k] : k \in 1..Len(trace)}
        /\ pfx \o <<"user.reg">> \notin fsPaths \/ hive[pfx] = <<>>}
LastPrefix == IF trace = <<>> THEN NoPath ELSE
    LET file == trace[Len(trace)].path IN SubSeq(file, 1, 3 - (IF Under(PW, file) THEN 1 ELSE 0))

\* C13: a registry hive that is not there is never raised as an error.  In
\* get_uplay_path a candidate prefix without user.reg, or whose user.reg has
\* no open command, is passed over: the next candidate is examined, or, it
\* being the last one, the lookup returns empty; an exception leaves the
\* lookup, and an empty result is returned before the last candidate, only
\* at a prefix whose user.reg exists and has an open command.  In
\* get_game_path_from_game_id a system.reg that is not there, or that has no
\* InstallDir under the key asked, gives no path and a logged warning.
C13_AbsentHiveNotRaised ==
    /\ GetUplayPathDone =>
          /\ \A pfx \in SkippedPrefixes :
                IF CandidateNo(pfx) < 3
                THEN \E k \in 1..Len(trace) : PrefixNo(trace[k]) = CandidateNo(pfx) + 1
                ELSE result = RetPath(NoPath)
          /\ (result.kind = "raise" \/ (result = RetPath(NoPath) /\ LastPrefix # PW)) =>
                /\ FromHive
                /\ LastPrefix \o <<"user.reg">> \in fsPaths
                /\ hive[LastPrefix] # <<>>
    /\ (GetGamePathDone /\ Has("query")) =>
          ((PrefixAsked \o <<"system.reg">> \notin fsPaths \/ KeyAsked \notin KeysIn(PrefixAsked))
             => /\ result = Ret("None")
                /\ trace[Len(trace)] = Ev("log_warning", NoPath, arg.game_id))

\* The lookup passed a win64 prefix without user.reg and a win32 prefix
\* whose user.reg has no open command, and found the launcher in ~/.wine
C13_Witness ==
    /\ GetUplayPathDone
    /\ P64 \in fsPaths /\ P64 \o <<"user.reg">> \notin fsPaths
    /\ P32 \o <<"user.reg">> \in fsPaths /\ hive[P32] = <<>>
    /\ SkippedPrefixes = {P64, P32}
    /\ result = RetPath(PW \o PFRel)

----------------------------------------------------------------------------
(* C14 *)

\* The default prefix a configuration without explicit prefix resolves to
DefaultPrefixOf(c) ==
    LET a == IF c.arch \in {"win32", "win64"} THEN c.arch ELSE c.default_arch
    IN  IF a = "win64" THEN P64 ELSE P32
Creations(t) == {k \in 1..Len(t) : t[k].ev = "create_prefix"}

\* C14: a call of prefix_path with an explicit prefix configured returns that
\* prefix, home-expanded, tests and creates nothing and leaves the disk as
\* it is, whether the prefix exists or not; without one it returns the
\* default prefix of the concrete architecture, create_prefix being called
\* (once) if and only if that path does not exist when the call is made,
\* and a creation error leaves the call, after that one attempt, with the
\* disk as it was.
C14_PrefixResolution ==
    [][(pc = "idle" /\ op' = "prefix_path") =>
          IF cfg'.prefix # NoPath
          THEN /\ result' = RetPath(IF cfg'.prefix = HomeBottle
                                     THEN <<"home", "bottle">> ELSE cfg'.prefix)
               /\ trace' = <<>>
               /\ fsPaths' = fsPaths
          ELSE LET pfx == DefaultPrefixOf(cfg')
               IN  /\ result' \in {RetPath(pfx), Exc("PrefixCreationError")}
                   /\ Cardinality(Creations(trace'))
                         = IF pfx \in fsPaths THEN 0 ELSE 1
                   /\ \A k \in Creations(trace') : trace'[k].path = pfx
                   /\ result' = RetPath(pfx) => (pfx \in fsPaths' /\ fsPaths \subseteq fsPaths')
                   /\ result'.kind = "raise" => (pfx \notin fsPaths /\ fsPaths' = fsPaths)
      ]_vars

\* prefix_path created the win32 default prefix, which was not there, while
\* the win64 one was, and returned it
C14_Witness ==
    /\ op = "prefix_path" /\ pc = "done" /\ cfg.prefix = NoPath /\ cfg.arch = "win32"
    /\ trace = <<Ev("get_default_prefix", P32, "win32"), Ev("exists", P32, ""),
                 Ev("create_prefix", P32, "win32")>>
    /\ result = RetPath(P32)
    /\ P32 \in fsPaths /\ P64 \in fsPaths

----------------------------------------------------------------------------
(* C15 *)

\* What the lookup gives for the configuration of the call
Located == get_uplay_path(cfg, fsPaths, hive, cfg.fix_miss)
NotLocated == Located.exc = "" /\ Located.ret = NoPath
\* The words the extra arguments of the call split into
ExtraWords ==
    IF cfg.args = <<>> THEN <<>>
    ELSE IF cfg.args = <<"-silent">> THEN << <<"-silent">> >>
    ELSE << <<"-a">>, <<"b c">> >>

----------------------------------------------------------------------------
(* C16 *)

\* The positions inside force_shutdown, and the moves between them:
\* Idle (fs_entry, fs_stop: before the stop request is out), GracefulWait,
\* ForcedWait (fs_kill: entering it), FailedLogged (fs_failed), and out of
\* force_shutdown, into its caller
InForceShutdown ==
    pc \in {"fs_entry", "fs_stop", "graceful_wait", "fs_kill", "forced_wait", "fs_failed"}
ShutdownMoves ==
    {<<"fs_entry", "fs_stop">>, <<"fs_stop", "graceful_wait">>,
     <<"graceful_wait", "graceful_wait">>, <<"graceful_wait", "fs_kill">>,
     <<"fs_kill", "forced_wait">>, <<"forced_wait", "forced_wait">>,
     <<"forced_wait", "fs_failed">>}
    \cup {<<from, to>> :
            from \in {"fs_entry", "fs_stop", "graceful_wait", "forced_wait", "fs_failed"},
            to \in {"done", "uninstall"}}
PollsUpTo(k) == {j \in Polls : j <= k}

\* C16: every call of force_shutdown moves only Idle -> GracefulWait ->
\* (out | ForcedWait) -> (out | FailedLogged) -> out, and comes to its end
\* whatever the process does; it makes at most one stop request and at most
\* one kill, the stop request before every poll and the kill before every
\* poll after the tenth, logs the failure only after five polls that
\* followed the kill and all saw the process running, and sleeps at most
\* fifteen times.
C16_ShutdownStateMachine ==
    /\ [][InForceShutdown => <<pc, pc'>> \in ShutdownMoves]_vars
    /\ [](/\ Cardinality(At("shutdown")) <= 1
          /\ Cardinality(At("kill")) <= 1
          /\ \A k \in Polls : \E j \in At("shutdown") : j < k
          /\ \A k \in Polls :
                Cardinality(PollsUpTo(k)) > 10 => \E j \in At("kill") : j < k
          /\ Has("log_error") =>
                /\ Cardinality(ForcedPhase) = 5
                /\ \A k \in ForcedPhase : trace[k].arg = "True"
                /\ \A k \in At("log_error") : \A j \in Polls : j < k
          /\ Cardinality(At("sleep")) <= 15)
    /\ (InForceShutdown ~> ~InForceShutdown)

\* A force_shutdown that went through both phases and logged its failure
C16_Witness ==
    /\ op = "force_shutdown" /\ pc = "done" /\ fsOutcome = "returned"
    /\ Cardinality(At("sleep")) = 15
    /\ Cardinality(At("kill")) = 1
    /\ trace[Len(trace)].ev = "log_error"

----------------------------------------------------------------------------
(* C17 *)

ArchEvents == {"get_default_prefix", "create_prefix", "wine_arch"}

\* C17: in every call, wherever a default prefix is looked up
\* (get_default_prefix), a prefix is created (create_prefix) or the
\* architecture is asked to select the InstallDir key, the architecture is
\* win32 or win64, never auto or unset, and the lookup gives a prefix.
C17_ConcreteArchitecture ==
    \A k \in 1..Len(trace) :
        trace[k].ev \in ArchEvents =>
           /\ trace[k].arg \in {"win32", "win64"}
           /\ trace[k].ev = "get_default_prefix" =>
                 trace[k].path = (IF trace[k].arg = "win64" THEN P64 ELSE P32)
           /\ result # Exc("KeyError")

\* A game path query with the architecture auto created the default prefix
\* of the default architecture and selected a key
C17_Witness ==
    /\ GetGamePathDone /\ cfg.arch = "auto" /\ cfg.prefix = NoPath
    /\ Ev("create_prefix", DefaultPrefixOf(cfg), cfg.default_arch)
          \in {trace[k] : k \in 1..Len(trace)}
    /\ Has("wine_arch") /\ Has("query")

----------------------------------------------------------------------------
(* C18 *)

StepEvents == {"aux_install", "winetricks", "product_install"}
Resolutions == At("get_default_prefix")
\* The prefix is resolved at most once, and once before any install step;
\* it is created at most once, right after it was looked up; every install
\* step comes after the resolution and is made in the prefix it gave
ResolvedOnceForAllSteps ==
    /\ Cardinality(Resolutions) <= 1
    /\ StepsDone # <<>> => Cardinality(Resolutions) = 1
    /\ Cardinality(At("create_prefix")) <= 1
    /\ \A r \in Resolutions :
          /\ \A k \in At("download_and_extract") \cup At("downloader") : k < r
          /\ \A k \in At("create_prefix") : k > r /\ trace[k].path = trace[r].path
          /\ \A k \in 1..Len(trace) :
                trace[k].ev \in StepEvents =>
                   /\ r < k
                   /\ \A c \in At("create_prefix") : c < k
                   /\ trace[k].path = trace[r].path

\* C18: in a call of install the prefix is resolved (and created if it is
\* not there) exactly once, when both downloads have completed and before
\* the first install step, and the DirectX install, the winetricks install
\* and the Uplay install are all made in that prefix.
C18_OnePrefixAfterDownloads ==
    op = "install" =>
       /\ ResolvedOnceForAllSteps
       /\ Resolutions # {} => (dx = "ok" /\ up = "ok")

\* C18 without the completion of the auxiliary download: the resolution
\* comes after both downloads were started and the product download ended
C18_OnePrefixAfterProductDownload ==
    op = "install" =>
       /\ ResolvedOnceForAllSteps
       /\ Resolutions # {} => up = "ok"

----------------------------------------------------------------------------
(* C19 *)

\* What is_installed() is to answer for the configuration of the call: wine
\* is installed, the default prefix exists and the launcher the lookup
\* gives exists
Installed ==
    /\ cfg.wine_installed
    /\ (IF cfg.default_arch = "win64" THEN P64 ELSE P32) \in fsPaths
    /\ Located.exc = "" /\ Located.ret # NoPath /\ Located.ret \in fsPaths

----------------------------------------------------------------------------
(* C20 *)

\* What create_prefix makes of a prefix
FreshPrefix(pfx) == {pfx, pfx \o <<"user.reg">>, pfx \o <<"system.reg">>}

\* C20: no step of any operation removes a path from the disk; a call of
\* get_uplay_path or of is_installed leaves the disk as it is, whatever the
\* configuration and the disk; and the disk changes only where
\* get_or_create_default_prefix, having looked up a default prefix and
\* found it missing, has create_prefix make that prefix.
C20_DiscoveryReadOnly ==
    [][/\ fsPaths \subseteq fsPaths'
       /\ op' \in {"get_uplay_path", "is_installed"} =>
             (fsPaths' = fsPaths /\ \A k \in 1..Len(trace') : trace'[k].ev # "create_prefix")
       /\ fsPaths' # fsPaths =>
             LET first == IF pc = "idle" THEN 1 ELSE Len(trace) + 1
             IN  \E k \in (first + 2)..Len(trace') :
                    LET made == trace'[k]
                    IN  /\ made.ev = "create_prefix"
                        /\ trace'[k - 1] = Ev("exists", made.path, "")
                        /\ trace'[k - 2] = Ev("get_default_prefix", made.path, made.arg)
                        /\ made.path \notin fsPaths
                        /\ fsPaths' = fsPaths \cup FreshPrefix(made.path)
      ]_vars

\* is_installed answered False for a default prefix that is not there, and
\* it is still not there
C20_Witness ==
    /\ op = "is_installed" /\ pc = "done" /\ cfg.wine_installed
    /\ cfg.default_arch = "win32" /\ P32 \notin fsPaths
    /\ trace = <<Ev("exists", P32, "")>>
    /\ result = Ret("False")

====
